---- MODULE Spec2Model ----
(***************************************************************************)
(* A model of torch/_higher_order_ops/while_loop.py: the while_loop        *)
(* higher-order operator, its argument validation, and its handlers for    *)
(* the dense, autograd, tracing, fake-tensor and functionalization modes.  *)
(***************************************************************************)
EXTENDS Integers, Sequences, FiniteSets, TLC

(***************************************************************************)
(* Bounds of the model.                                                    *)
(***************************************************************************)
\* largest threshold of a "sum < thr" condition function
MaxThr == 3
\* cap on the body evaluations of a loop whose condition never turns false
MaxIter == 4
\* number of loops traced one after the other into the same graph
MaxCalls == 3
\* unbacked symbols a shape environment may hold before the first call
SymbolsBefore == 14

(***************************************************************************)
(* Python values.  A value is a record tagged by its type in field t.      *)
(***************************************************************************)
\* fw: the tensor is wrapped by the functionalization pass
Tensor(dtype, shape, v) ==
    [t |-> "tensor", dtype |-> dtype, shape |-> shape, v |-> v, fw |-> FALSE]
PyInt(v) == [t |-> "int", v |-> v]
PyFloat(v) == [t |-> "float", v |-> v]
PyBool(b) == [t |-> "bool", v |-> b]
PyNone == [t |-> "none"]
PyStr == [t |-> "str"]
SymInt(id) == [t |-> "symint", id |-> id]
PyTuple(items) == [t |-> "tuple", items |-> items]
PyList(items) == [t |-> "list", items |-> items]

IsTuple(x) == x.t = "tuple"
IsTensor(x) == x.t = "tensor"
\* isinstance(x, int): bool is a subclass of int in Python
IsAnything(x) == TRUE

IsInt(x) == x.t \in {"int", "bool"}
IsCallable(f) == f.t = "fn"

Range(s) == {s[j] : j \in 1..Len(s)}

RECURSIVE Numel(_)
Numel(shape) == IF shape = <<>> THEN 1 ELSE Head(shape) * Numel(Tail(shape))

\* bool(x), as the walrus-while of the dense executor applies it: "true",
\* "false", or "raise" for a tensor whose truth value is ambiguous.
Truth(b) == IF b THEN "true" ELSE "false"

Truthy(x) ==
    CASE x.t = "bool" -> Truth(x.v)
      [] x.t \in {"int", "float"} -> Truth(x.v # 0)
      [] x.t = "none" -> "false"
      [] x.t = "tensor" ->
            IF Numel(x.shape) # 1 THEN "raise"
            ELSE IF x.dtype = "bool" THEN Truth(x.v) ELSE Truth(x.v # 0)
      [] x.t \in {"tuple", "list"} -> Truth(x.items # <<>>)
      [] OTHER -> "true"

\* numeric content of a scalar or one-valued tensor (it.sum())
Num(x) ==
    CASE x.t \in {"int", "float", "symint"} -> IF x.t = "symint" THEN 0 ELSE x.v
      [] x.t = "bool" -> IF x.v THEN 1 ELSE 0
      [] x.t = "tensor" -> IF x.dtype = "bool" THEN (IF x.v THEN 1 ELSE 0) ELSE x.v
      [] OTHER -> 0

RECURSIVE SumNum(_)
SumNum(s) == IF s = <<>> THEN 0 ELSE Num(Head(s)) + SumNum(Tail(s))

\* x + k, keeping the type of x
AddTo(x, k) ==
    CASE x.t \in {"int", "float"} -> [x EXCEPT !.v = @ + k]
      [] x.t = "tensor" /\ x.dtype # "bool" -> [x EXCEPT !.v = @ + k]
      [] OTHER -> x

(***************************************************************************)
(* User functions.  A callable is a record with t = "fn" that describes    *)
(* what the function computes; n is the number of carried parameters it    *)
(* was written for, the remaining arguments are the additional inputs.     *)
(*   cond_fn(c1..cn, *add) = c1.sum() + sum(add) < thr, as a native bool   *)
(*     (out = "bool") or a zero-dimensional bool tensor (out = "tensor"),  *)
(*     except that it returns the value bad when c1.sum() = badAt;         *)
(*   body_fn(c1..cn, *add) = (c1 + 1, sin(c2), .., sin(cn)) for kind       *)
(*     "inc" and clones of (c1, .., cn) for kind "stay", except that its   *)
(*     result has the shape bad when c1.sum() = badAt.                     *)
(* sin is kept abstract: a tensor's v counts its applications.             *)
(***************************************************************************)
NoFault == -1

CondFn(n, thr, out, badAt, bad) ==
    [t |-> "fn", role |-> "cond", n |-> n, thr |-> thr, out |-> out,
     badAt |-> badAt, bad |-> bad, mutates |-> FALSE, aliases |-> FALSE,
     functional |-> FALSE]

BodyFn(n, kind, badAt, bad) ==
    [t |-> "fn", role |-> "body", n |-> n, kind |-> kind,
     badAt |-> badAt, bad |-> bad, mutates |-> FALSE, aliases |-> FALSE,
     functional |-> FALSE, sig |-> "keep", allocs |-> 0]

\* cond_fn applied to args
CondApply(fn, args) ==
    IF fn.badAt # NoFault /\ Num(args[1]) = fn.badAt THEN fn.bad
    ELSE LET b == Num(args[1]) + SumNum(SubSeq(args, fn.n + 1, Len(args))) < fn.thr
         IN IF fn.out = "bool" THEN PyBool(b) ELSE Tensor("bool", <<>>, b)

Sin(x) == AddTo(x, 1)

\* the metadata change of a body that does not preserve the signature
Widen(x) == IF IsTensor(x) THEN [x EXCEPT !.shape = <<2>> \o @] ELSE x

BodyItems(fn, args) ==
    [j \in 1..fn.n |->
        LET y == IF fn.kind = "stay" THEN args[j]
                 ELSE IF j = 1 THEN AddTo(args[1], 1) ELSE Sin(args[j])
        IN IF fn.sig = "keep" THEN y ELSE Widen(y)]

\* body_fn applied to args
BodyApply(fn, args) ==
    LET items == BodyItems(fn, args)
    IN IF fn.badAt # NoFault /\ Num(args[1]) = fn.badAt
       THEN CASE fn.bad = "nontuple" -> items[1]
              [] fn.bad = "list" -> PyList(items)
              [] fn.bad = "longer" -> PyTuple(Append(items, items[1]))
              [] fn.bad = "shorter" -> PyTuple(SubSeq(items, 1, fn.n - 1))
              [] OTHER -> PyTuple(items)
       ELSE PyTuple(items)

(***************************************************************************)
(* State.                                                                  *)
(***************************************************************************)
VARIABLES
    entry,              \* how the loop was entered
    cond_fn, body_fn, carried_inputs, additional_inputs,
                        \* the arguments of the operator call in progress
    modes,              \* the active dispatch modes, outermost first
    frames,             \* the handlers waiting for a nested operator call
    pc,                 \* the position of the call
    carried_vals,       \* while_loop_dense: the current carried tuple
    result,             \* the value returned by the last call that returned
    error,              \* the exception raised, or "none"
    hist,               \* what this call has evaluated and dispatched so far
    shape_env,          \* the shape environment of the fake mode
    root,               \* the named children of the enclosing graph module
    nodes,              \* the call nodes emitted into the enclosing graph
    tr,                 \* the locals of the tracing and fake-tensor handlers
    sess                \* what the calls made so far have registered

argVars == <<cond_fn, body_fn, carried_inputs, additional_inputs>>
traceVars == <<shape_env, root, nodes, tr, sess>>
vars == <<entry, cond_fn, body_fn, carried_inputs, additional_inputs, modes,
          frames, pc, carried_vals, result, error, hist, shape_env, root,
          nodes, tr, sess>>

\* an exception propagates through every waiting handler
Raise(e) ==
    /\ pc' = "raised"
    /\ error' = e
    /\ frames' = <<>>
    /\ UNCHANGED <<modes, result>>

\* a handler returns v to the handler waiting for it, or to the caller
Return(v) ==
    /\ result' = v
    /\ error' = error
    /\ IF frames = <<>>
       THEN pc' = "done" /\ UNCHANGED <<modes, frames>>
       ELSE /\ pc' = Head(frames).pc
            /\ modes' = Head(frames).modes
            /\ frames' = Tail(frames)

(***************************************************************************)
(* Errors, named by the message the code raises them with.                 *)
(***************************************************************************)
ErrCallCarriedTuple == "carried_inputs must be a tuple, got"
ErrCallAdditionalTuple == "additional_inputs must be a tuple, got"
ErrCallCarriedTypes == "carried_inputs must be a tuple of tensors, ints, floats, or bools, got"
ErrSubgraphArgs == "validate_subgraph_args_types"
ErrNotCallable == "Expect cond_fn and body_fn to be callable."
ErrDenseCarriedTuple == "carried_inputs must be a tuple but got"
ErrCondType == "cond_fn must return a boolean scalar tensor or a bool but got"
ErrBodyTuple == "body_fn should return a tuple but got"
ErrBodyArity == "body_fn should return the same number of elements as carried_inputs"
ErrTypeNotCallable == "TypeError: object is not callable"
ErrBoolAmbiguous == "Boolean value of Tensor is ambiguous"
ErrAutograd == "autograd not implemented"

\* the errors of the argument contract (spec section 7)
ArgContractErrors ==
    {ErrCallCarriedTuple, ErrCallAdditionalTuple, ErrCallCarriedTypes,
     ErrSubgraphArgs, ErrNotCallable}

(***************************************************************************)
(* Validation.                                                             *)
(***************************************************************************)
\* isinstance(t, (torch.Tensor, int, float, bool, torch.SymInt))
CarriedTypeAny(x) == TRUE

CarriedTypeOk(x) == x.t \in {"tensor", "int", "float", "bool", "symint"}

\* validate_subgraph_args_types: the stricter check of the subgraph-argument
\* validator (no floats)
SubgraphArgsOk(x) ==
    IF x.t \in {"tuple", "list"}
    THEN \A j \in 1..Len(x.items) : x.items[j].t \in {"tensor", "int", "bool", "symint"}
    ELSE x.t = "tensor" /\ x.shape # <<>>

\* while_loop: the user-facing wrapper
while_loop ==
    /\ pc = "while_loop"
    /\ IF entry = "while_loop:compiling"
       THEN /\ pc' = "op_call"
            /\ UNCHANGED <<modes, frames, result, error>>
       ELSE IF ~IsCallable(cond_fn) \/ ~IsCallable(body_fn)
       THEN Raise(ErrNotCallable)
       ELSE IF ~SubgraphArgsOk(carried_inputs)
       THEN Raise(ErrSubgraphArgs)
       ELSE /\ pc' = "op_call"
            /\ UNCHANGED <<modes, frames, result, error>>
    /\ UNCHANGED <<entry, argVars, carried_vals, hist, traceVars>>

\* the handlers registered with while_loop_op.py_impl, by dispatch key
py_impl(key) ==
    CASE key = "CompositeExplicitAutograd" -> "while_loop_dense"
      [] key = "Autograd" -> "autograd_not_implemented"
      [] key = "ProxyTorchDispatchMode" -> "while_loop_tracing"
      [] key = "FakeTensorMode" -> "while_loop_fake_tensor_mode"
      [] key = "Functionalize" -> "while_loop_func"

\* HigherOrderOperator.__call__: the handler of the outermost active mode,
\* the dense one when no mode is active
Dispatch(ms) ==
    IF ms = <<>> THEN py_impl("CompositeExplicitAutograd") ELSE py_impl(Head(ms))

\* WhileLoopOp.__call__
WhileLoopOp__call__ ==
    /\ pc = "op_call"
    /\ IF ~IsTuple(carried_inputs)
       THEN Raise(ErrCallCarriedTuple) /\ hist' = hist
       ELSE IF ~IsTuple(additional_inputs)
       THEN Raise(ErrCallAdditionalTuple) /\ hist' = hist
       ELSE IF ~(\A j \in 1..Len(carried_inputs.items) :
                     CarriedTypeOk(carried_inputs.items[j]))
       THEN Raise(ErrCallCarriedTypes) /\ hist' = hist
       ELSE IF ~SubgraphArgsOk(additional_inputs)
       THEN Raise(ErrSubgraphArgs) /\ hist' = hist
       ELSE /\ pc' = Dispatch(modes)
            /\ hist' = [hist EXCEPT !.dispatched = Append(@, Dispatch(modes)),
                                    !.calls = @ + 1]
            /\ UNCHANGED <<modes, frames, result, error>>
    /\ UNCHANGED <<entry, argVars, carried_vals, traceVars>>

(***************************************************************************)
(* The dense executor.                                                     *)
(***************************************************************************)
\* _is_valid_cond_fn_output
_is_valid_cond_fn_output(pred) ==
    \/ pred.t = "bool"
    \/ (pred.t = "tensor" /\ pred.shape = <<>> /\ pred.dtype = "bool")

\* while_loop_dense up to the loop: the tuple check
while_loop_dense_body_first ==
    /\ pc = "while_loop_dense"
    /\ carried_vals' = carried_inputs
    /\ IF ~IsTuple(carried_inputs)
       THEN Raise(ErrDenseCarriedTuple)
       ELSE pc' = "dense_body" /\ UNCHANGED <<modes, frames, result, error>>
    /\ UNCHANGED <<entry, argVars, hist, traceVars>>

while_loop_dense ==
    /\ pc = "while_loop_dense"
    /\ carried_vals' = carried_inputs
    /\ IF ~IsTuple(carried_inputs)
       THEN Raise(ErrDenseCarriedTuple)
       ELSE pc' = "dense_cond" /\ UNCHANGED <<modes, frames, result, error>>
    /\ UNCHANGED <<entry, argVars, hist, traceVars>>

\* the value while_loop_dense returns
DenseResultInitial == carried_inputs

DenseResult == carried_vals

\* the arguments of cond_fn and body_fn: the carried values, then the
\* additional inputs
DenseArgsAdditionalFirst(vals) == additional_inputs.items \o vals.items

DenseArgs(vals) == vals.items \o additional_inputs.items

\* while pred := cond_fn(carried_vals.., additional_inputs..): one evaluation
\* of the condition, with the check of its value or the return
dense_cond ==
    /\ pc = "dense_cond"
    /\ IF ~IsCallable(cond_fn)
       THEN Raise(ErrTypeNotCallable) /\ hist' = hist
       ELSE LET pred == CondApply(cond_fn, DenseArgs(carried_vals))
            IN /\ hist' = [hist EXCEPT !.condEvals = @ + 1,
                               !.badCond = @ \/ ~_is_valid_cond_fn_output(pred),
                               !.log = Append(@, <<"cond", carried_vals,
                                                    DenseArgs(carried_vals)>>)]
               /\ CASE Truthy(pred) = "raise" -> Raise(ErrBoolAmbiguous)
                    [] Truthy(pred) = "false" -> Return(DenseResult)
                    [] OTHER ->
                         IF ~_is_valid_cond_fn_output(pred)
                         THEN Raise(ErrCondType)
                         ELSE /\ pc' = "dense_body"
                              /\ UNCHANGED <<modes, frames, result, error>>
    /\ UNCHANGED <<entry, argVars, carried_vals, traceVars>>

\* the two assertions on the output of body_fn: the error raised, or "none"
BodyOutErrorNoArity(out) == IF ~IsTuple(out) THEN ErrBodyTuple ELSE "none"

BodyOutError(out) ==
    IF ~IsTuple(out) THEN ErrBodyTuple
    ELSE IF Len(out.items) # Len(carried_inputs.items) THEN ErrBodyArity
    ELSE "none"

\* the limit of the docstring example: iter.sum() < 10
DocExampleLimit == 10

\* the iterations explored: MaxIter, and for a condition with a higher limit
\* one more than that limit, so that only a loop that goes on is cut short
IterCap ==
    IF IsCallable(cond_fn) /\ cond_fn.thr >= MaxIter THEN cond_fn.thr + 1 ELSE MaxIter

\* out = body_fn(carried_vals.., additional_inputs..), the two assertions on
\* out, and carried_vals = out
dense_body ==
    /\ pc = "dense_body"
    /\ hist.bodyEvals < IterCap
    /\ IF ~IsCallable(body_fn)
       THEN Raise(ErrTypeNotCallable) /\ UNCHANGED <<hist, carried_vals>>
       ELSE LET out == BodyApply(body_fn, DenseArgs(carried_vals))
            IN /\ hist' = [hist EXCEPT !.bodyEvals = @ + 1,
                               !.badBody = @ \/ ~IsTuple(out)
                                             \/ Len(out.items) # Len(carried_inputs.items),
                               !.log = Append(@, <<"body", carried_vals,
                                                    DenseArgs(carried_vals)>>)]
               /\ IF BodyOutError(out) # "none"
                  THEN Raise(BodyOutError(out)) /\ UNCHANGED carried_vals
                  ELSE /\ carried_vals' = out
                       /\ pc' = "dense_cond"
                       /\ UNCHANGED <<modes, frames, result, error>>
    /\ UNCHANGED <<entry, argVars, traceVars>>

(***************************************************************************)
(* The Autograd key.                                                       *)
(***************************************************************************)
\* while_loop_op.py_impl(DispatchKey.Autograd)(
\*     autograd_not_implemented(while_loop_op, deferred_error=True))
deferred_error_off == FALSE

deferred_error == TRUE

\* autograd_not_implemented, forward: run the operator below the Autograd key
autograd_forward ==
    /\ pc = "autograd_not_implemented"
    /\ frames' = <<[pc |-> "autograd_return", modes |-> modes]>> \o frames
    /\ modes' = Tail(modes)
    /\ pc' = "op_call"
    /\ UNCHANGED <<entry, argVars, carried_vals, result, error, hist, traceVars>>

\* autograd_not_implemented, after the forward: raise now, or attach the
\* error to the outputs so that it is raised when a gradient flows through them
autograd_return ==
    /\ pc = "autograd_return"
    /\ IF deferred_error
       THEN Return(result) /\ hist' = [hist EXCEPT !.errGradFn = TRUE]
       ELSE Raise(ErrAutograd) /\ hist' = hist
    /\ UNCHANGED <<entry, argVars, carried_vals, traceVars>>

\* the caller requests a gradient through the output of a finished call
backward ==
    /\ pc = "done"
    /\ ~hist.gradRequested
    /\ hist' = [hist EXCEPT !.gradRequested = TRUE]
    /\ IF hist.errGradFn
       THEN Raise(ErrAutograd)
       ELSE UNCHANGED <<pc, error, frames, modes, result>>
    /\ UNCHANGED <<entry, argVars, carried_vals, traceVars>>

(***************************************************************************)
(* Initial states: one operator call, not yet started.                     *)
(***************************************************************************)
Hist0 ==
    [condEvals |-> 0, bodyEvals |-> 0, dispatched |-> <<>>, badCond |-> FALSE,
     badBody |-> FALSE, log |-> <<>>, errGradFn |-> FALSE, gradRequested |-> FALSE,
     calls |-> 0, checks |-> <<>>, steps |-> <<>>]

\* a shape environment: the index of the next unbacked symbol, the pending
\* fresh symbols, the recorded bindings, the ignore-fresh-symbols flag
ShapeEnv(next) == [next |-> next, pending |-> {}, bound |-> {}, ignore |-> FALSE]

NoDbg == [resume |-> "none", items |-> <<>>, pos |-> 0, bind |-> FALSE]

Tr0 ==
    [tracing_carry |-> PyNone, cond_graph |-> PyNone, body_graph |-> PyNone,
     body_output |-> PyNone, prev_ignore |-> FALSE, prev_pending |-> {}, dbg |-> NoDbg,
     fake_out |-> PyNone, body_syms |-> {}, fake_syms |-> {}]

Session(r, ms) ==
    [calls |-> 1, regs |-> <<>>, root0 |-> r, modes0 |-> ms, overwritten |-> 0]

Sess0 == Session(<<>>, <<>>)

Counters == {PyInt(0)} \cup {Tensor("float32", <<1>>, c) : c \in 0..1}
XTensor == Tensor("float32", <<3, 4>>, 0)

CarriedChoices ==
    {PyTuple(<<c>>) : c \in Counters}
    \cup {PyTuple(<<c, XTensor>>) : c \in Counters}
    \cup {XTensor, PyList(<<XTensor>>), PyTuple(<<PyStr>>),
          PyTuple(<<Tensor("float32", <<1>>, 0), PyNone>>)}

AdditionalChoices ==
    {PyTuple(<<>>), PyTuple(<<PyInt(1)>>), PyList(<<>>), PyTuple(<<PyStr>>)}

\* values a condition may return that are no boolean scalar
BadCondValues ==
    {PyInt(0), PyInt(1), Tensor("int64", <<>>, 0), Tensor("bool", <<1>>, TRUE),
     Tensor("bool", <<2>>, TRUE)}

NotCallable == PyInt(5)

Arity(c) == IF c.t \in {"tuple", "list"} THEN Len(c.items) ELSE 1

CondChoices(n) ==
    {CondFn(n, thr, out, NoFault, PyNone) : thr \in 0..MaxThr, out \in {"bool", "tensor"}}
    \cup {CondFn(n, thr, out, 1, bad) :
            thr \in 0..MaxThr, out \in {"bool", "tensor"}, bad \in BadCondValues}
    \cup {NotCallable}

BodyChoices(n) ==
    {BodyFn(n, kind, NoFault, "ok") : kind \in {"inc", "stay"}}
    \cup {BodyFn(n, kind, 1, bad) :
            kind \in {"inc", "stay"}, bad \in {"nontuple", "list", "longer", "shorter"}}
    \cup {NotCallable}

Init ==
    /\ entry \in {"while_loop:compiling", "while_loop:eager", "while_loop_op"}
    /\ carried_inputs \in CarriedChoices
    /\ additional_inputs \in
         IF entry = "while_loop_op" THEN AdditionalChoices ELSE {PyTuple(<<>>)}
    /\ cond_fn \in CondChoices(Arity(carried_inputs))
    /\ body_fn \in BodyChoices(Arity(carried_inputs))
    /\ modes \in {<<>>, <<"Autograd">>}
    /\ frames = <<>>
    /\ pc = IF entry = "while_loop_op" THEN "op_call" ELSE "while_loop"
    /\ carried_vals = PyNone
    /\ result = PyNone
    /\ error = "none"
    /\ hist = Hist0
    /\ shape_env = ShapeEnv(0)
    /\ root = <<>>
    /\ nodes = <<>>
    /\ tr = Tr0
    /\ sess = Sess0

Next ==
    \/ while_loop
    \/ WhileLoopOp__call__
    \/ while_loop_dense
    \/ dense_cond
    \/ dense_body
    \/ autograd_forward
    \/ autograd_return
    \/ backward

Spec == Init /\ [][Next]_vars

(***************************************************************************)
(* The docstring example under the dense executor: cond_fn is              *)
(* iter.sum() < 10 and body_fn is (iter + 1, x.sin()), or a body_fn that   *)
(* returns clones of its inputs, for which the condition never turns       *)
(* false.                                                                  *)
(***************************************************************************)
InitExample ==
    /\ entry = "while_loop_op"
    /\ carried_inputs \in {PyTuple(<<Tensor("float32", <<1>>, c), XTensor>>) : c \in 0..1}
                          \cup {PyTuple(<<PyInt(0)>>)}
    /\ additional_inputs \in {PyTuple(<<>>), PyTuple(<<PyInt(1)>>)}
    /\ cond_fn \in {CondFn(Arity(carried_inputs), DocExampleLimit, out, NoFault, PyNone) :
                      out \in {"bool", "tensor"}}
    /\ body_fn \in {BodyFn(Arity(carried_inputs), kind, NoFault, "ok") : kind \in {"inc", "stay"}}
    /\ modes = <<>>
    /\ frames = <<>>
    /\ pc = "op_call"
    /\ carried_vals = PyNone
    /\ result = PyNone
    /\ error = "none"
    /\ hist = Hist0
    /\ shape_env = ShapeEnv(0)
    /\ root = <<>>
    /\ nodes = <<>>
    /\ tr = Tr0
    /\ sess = Sess0

NextExample ==
    \/ WhileLoopOp__call__
    \/ while_loop_dense
    \/ dense_cond
    \/ dense_body

SpecExample == InitExample /\ [][NextExample]_vars

(***************************************************************************)
(* The functionalization handler.                                          *)
(***************************************************************************)
ErrCondMutation == "torch.while_loop's cond_fn might be modifying the input!"
ErrCondAlias == "torch.while_loop's cond_fn might be aliasing the input!"
ErrBodyMutation == "torch.while_loop's body_fn might be modifying the input!"
ErrBodyAlias == "torch.while_loop's body_fn might be aliasing the input!"

\* the message of the UnsupportedAliasMutationException of a check
FuncError(c) ==
    CASE c = <<"cond_fn", "mutation">> -> ErrCondMutation
      [] c = <<"cond_fn", "alias">> -> ErrCondAlias
      [] c = <<"body_fn", "mutation">> -> ErrBodyMutation
      [] c = <<"body_fn", "alias">> -> ErrBodyAlias

\* ctx.unwrap_tensors / ctx.wrap_tensors on a tuple of values
SetWrapped(x, b) ==
    [x EXCEPT !.items = [j \in 1..Len(@) |->
                            IF IsTensor(@[j]) THEN [@[j] EXCEPT !.fw = b] ELSE @[j]]]
unwrap_tensors(x) == SetWrapped(x, FALSE)
wrap_tensors(x) == SetWrapped(x, TRUE)

\* ctx.functionalize(_maybe_run_with_interpreter(fn))
functionalize(fn) == [fn EXCEPT !.functional = TRUE]

\* what the two checks of torch._higher_order_ops.utils report for fn
_has_potential_branch_input_mutation(fn) == fn.mutates
_has_potential_branch_input_alias(fn) == fn.aliases

\* the checks in the order the for loop of while_loop_func runs them
FuncCheckOrderAliasFirst ==
    <<<<"cond_fn", "alias">>, <<"cond_fn", "mutation">>,
      <<"body_fn", "alias">>, <<"body_fn", "mutation">>>>

FuncCheckOrderMutationOnly ==
    <<<<"cond_fn", "mutation">>, <<"body_fn", "mutation">>>>

FuncCheckOrder ==
    <<<<"cond_fn", "mutation">>, <<"cond_fn", "alias">>,
      <<"body_fn", "mutation">>, <<"body_fn", "alias">>>>

CheckFires(c, cf, bf) ==
    LET fn == IF c[1] = "cond_fn" THEN cf ELSE bf
    IN IF c[2] = "mutation"
       THEN _has_potential_branch_input_mutation(fn)
       ELSE _has_potential_branch_input_alias(fn)

\* the checks that run: those up to and including the first that fires
RECURSIVE ChecksRun(_, _, _)
ChecksRun(order, cf, bf) ==
    IF order = <<>> THEN <<>>
    ELSE IF CheckFires(Head(order), cf, bf) THEN <<Head(order)>>
    ELSE <<Head(order)>> \o ChecksRun(Tail(order), cf, bf)

\* while_loop_func up to and including the nested call of while_loop_op
while_loop_func ==
    /\ pc = "while_loop_func"
    /\ LET unwrapped_carried_inputs == unwrap_tensors(carried_inputs)
           unwrapped_additional_inputs == unwrap_tensors(additional_inputs)
           functional_cond_fn == functionalize(cond_fn)
           functional_body_fn == functionalize(body_fn)
           ran == ChecksRun(FuncCheckOrder, functional_cond_fn, functional_body_fn)
           fired == ran # <<>>
                      /\ CheckFires(ran[Len(ran)], functional_cond_fn, functional_body_fn)
       IN /\ hist' = [hist EXCEPT !.checks = ran]
          /\ IF fired
             THEN Raise(FuncError(ran[Len(ran)])) /\ UNCHANGED argVars
             ELSE /\ cond_fn' = functional_cond_fn
                  /\ body_fn' = functional_body_fn
                  /\ carried_inputs' = unwrapped_carried_inputs
                  /\ additional_inputs' = unwrapped_additional_inputs
                  /\ frames' = <<[pc |-> "func_return", modes |-> modes]>> \o frames
                  /\ modes' = Tail(modes)
                  /\ pc' = "op_call"
                  /\ UNCHANGED <<result, error>>
    /\ UNCHANGED <<entry, carried_vals, traceVars>>

\* return ctx.wrap_tensors(ret)
func_return_unwrapped ==
    /\ pc = "func_return"
    /\ Return(result)
    /\ UNCHANGED <<entry, argVars, carried_vals, hist, traceVars>>

func_return ==
    /\ pc = "func_return"
    /\ Return(wrap_tensors(result))
    /\ UNCHANGED <<entry, argVars, carried_vals, hist, traceVars>>

WithFlags(fn, m, a) == [fn EXCEPT !.mutates = m, !.aliases = a]

WrappedCarriedChoices ==
    {wrap_tensors(c) : c \in {x \in CarriedChoices : IsTuple(x) /\ x.items[1].t # "str"}}

InitFunc ==
    /\ entry = "while_loop_op"
    /\ carried_inputs \in WrappedCarriedChoices
    /\ additional_inputs \in {PyTuple(<<>>), wrap_tensors(PyTuple(<<Tensor("float32", <<1>>, 1)>>))}
    /\ cond_fn \in {WithFlags(CondFn(Arity(carried_inputs), thr, out, NoFault, PyNone), m, a) :
                      thr \in 0..MaxThr, out \in {"bool", "tensor"},
                      m \in BOOLEAN, a \in BOOLEAN}
    /\ body_fn \in {WithFlags(BodyFn(Arity(carried_inputs), kind, NoFault, "ok"), m, a) :
                      kind \in {"inc", "stay"}, m \in BOOLEAN, a \in BOOLEAN}
    /\ modes = <<"Functionalize">>
    /\ frames = <<>>
    /\ pc = "op_call"
    /\ carried_vals = PyNone
    /\ result = PyNone
    /\ error = "none"
    /\ hist = Hist0
    /\ shape_env = ShapeEnv(0)
    /\ root = <<>>
    /\ nodes = <<>>
    /\ tr = Tr0
    /\ sess = Sess0

NextFunc ==
    \/ WhileLoopOp__call__
    \/ while_loop_func
    \/ func_return
    \/ while_loop_dense
    \/ dense_cond
    \/ dense_body

SpecFunc == InitFunc /\ [][NextFunc]_vars

(***************************************************************************)
(* The shape environment and the unspecializer.                            *)
(***************************************************************************)
ErrAssertBodyName == "assert not hasattr(proxy_mode.tracer.root, body_graph_name)"
ErrNotIterable == "TypeError: object is not iterable"

\* the decimal digits of n, as str() writes them
RECURSIVE Digits(_)
Digits(n) == IF n < 10 THEN <<n>> ELSE Digits(n \div 10) \o <<n % 10>>

\* "u15" in str(unbacked_idx), the name of symbol idx being "u" then its digits
HitsBreakpoint(idx) ==
    LET d == Digits(idx) IN Len(d) >= 2 /\ d[1] = 1 /\ d[2] = 5

\* ShapeEnv.create_unbacked_symint: a symbol ignored inside an
\* ignore_fresh_unbacked_symbols scope, pending otherwise
create_unbacked_symint(env) ==
    [env EXCEPT !.next = @ + 1,
                !.pending = IF env.ignore THEN @ ELSE @ \cup {env.next}]

\* compute_unbacked_bindings: record the binding of symbol idx
compute_unbacked_bindings(env, idx) == [env EXCEPT !.bound = @ \cup {idx}]

\* _unspecialize_int: the symbol, the environment after it, and whether the
\* breakpoint() of line 199 is reached
_unspecialize_int(env, compute_binding) ==
    LET idx == env.next
        e1 == create_unbacked_symint(env)
        e2 == IF compute_binding THEN compute_unbacked_bindings(e1, idx) ELSE e1
    IN [sym |-> SymInt(idx), env |-> e2, brk |-> HitsBreakpoint(idx)]

\* unspecialize_ints_with_unbacked_symints from element k on: the elements,
\* the environment, and the position of the element at which the debugger
\* was entered (0 when the tuple was completed)
RECURSIVE UnspecFrom(_, _, _, _)
UnspecFrom(items, env, bind, k) ==
    IF k > Len(items) THEN [items |-> items, env |-> env, brk |-> 0]
    ELSE IF IsInt(items[k])
    THEN LET u == _unspecialize_int(env, bind)
             items2 == [items EXCEPT ![k] = u.sym]
         IN IF u.brk THEN [items |-> items2, env |-> u.env, brk |-> k]
            ELSE UnspecFrom(items2, u.env, bind, k + 1)
    ELSE UnspecFrom(items, env, bind, k + 1)

\* the symbols allocated between two environments
Allocated(e1, e2) == e1.next .. (e2.next - 1)

(***************************************************************************)
(* The tracing handler.                                                    *)
(***************************************************************************)
CondName(i) == <<"while_loop_cond_graph", i>>
BodyName(i) == <<"while_loop_body_graph", i>>

\* hasattr(proxy_mode.tracer.root, name)
HasAttr(r, name) == \E j \in 1..Len(r) : r[j].name = name

\* root.register_module(name, module): a child of that name is replaced
register_module(r, name, module) ==
    IF HasAttr(r, name)
    THEN [j \in 1..Len(r) |-> IF r[j].name = name THEN [r[j] EXCEPT !.module = module] ELSE r[j]]
    ELSE Append(r, [name |-> name, module |-> module])

\* the probe for the first i, from i on, with no child while_loop_cond_graph_i
NextFreeIndexNoProbe(r, i) == i

RECURSIVE NextFreeIndex(_, _)
NextFreeIndex(r, i) ==
    IF HasAttr(r, CondName(i)) THEN NextFreeIndex(r, i + 1) ELSE i

\* reenter_make_fx(fn)(args): the captured subgraph
Graph(fn, args) == [t |-> "graph", fn |-> fn, inputs |-> args]

Step(h, name) == [h EXCEPT !.steps = Append(@, name)]

\* _trace_while_loop: the fake mode, and the unspecialized carry made inside
\* the ignore_fresh_unbacked_symbols scope
while_loop_tracing_outside_scope ==
    /\ pc = "while_loop_tracing"
    /\ LET env0 == IF "FakeTensorMode" \in Range(modes) THEN shape_env ELSE ShapeEnv(0)
           u == UnspecFrom(carried_inputs.items, env0, TRUE, 1)
       IN IF u.brk # 0
          THEN /\ pc' = "breakpoint"
               /\ shape_env' = u.env
               /\ tr' = [tr EXCEPT !.prev_ignore = env0.ignore,
                                   !.prev_pending = env0.pending,
                                   !.dbg = [resume |-> "while_loop_tracing", items |-> u.items,
                                            pos |-> u.brk, bind |-> TRUE]]
          ELSE /\ pc' = "trace_capture"
               /\ shape_env' = [u.env EXCEPT !.ignore = env0.ignore]
               /\ tr' = [tr EXCEPT !.prev_ignore = env0.ignore,
                                   !.prev_pending = env0.pending,
                                   !.tracing_carry = PyTuple(u.items)]
    /\ hist' = Step(hist, "unspecialize")
    /\ UNCHANGED <<entry, argVars, modes, frames, carried_vals, result, error,
                   root, nodes, sess>>

while_loop_tracing ==
    /\ pc = "while_loop_tracing"
    /\ LET env0 == IF "FakeTensorMode" \in Range(modes) THEN shape_env ELSE ShapeEnv(0)
           u == UnspecFrom(carried_inputs.items, [env0 EXCEPT !.ignore = TRUE], TRUE, 1)
       IN IF u.brk # 0
          THEN /\ pc' = "breakpoint"
               /\ shape_env' = u.env
               /\ tr' = [tr EXCEPT !.prev_ignore = env0.ignore,
                                   !.prev_pending = env0.pending,
                                   !.dbg = [resume |-> "while_loop_tracing", items |-> u.items,
                                            pos |-> u.brk, bind |-> TRUE]]
          ELSE /\ pc' = "trace_capture"
               /\ shape_env' = [u.env EXCEPT !.ignore = env0.ignore]
               /\ tr' = [tr EXCEPT !.prev_ignore = env0.ignore,
                                   !.prev_pending = env0.pending,
                                   !.tracing_carry = PyTuple(u.items)]
    /\ hist' = Step(hist, "unspecialize")
    /\ UNCHANGED <<entry, argVars, modes, frames, carried_vals, result, error,
                   root, nodes, sess>>

\* cond_graph and body_graph: the two captures
trace_capture ==
    /\ pc = "trace_capture"
    /\ IF ~IsCallable(cond_fn) \/ ~IsCallable(body_fn)
       THEN Raise(ErrTypeNotCallable) /\ UNCHANGED <<tr, hist>>
       ELSE LET args == tr.tracing_carry.items \o additional_inputs.items
            IN /\ tr' = [tr EXCEPT !.cond_graph = Graph(cond_fn, args),
                                   !.body_graph = Graph(body_fn, args)]
               /\ hist' = Step(Step(hist, "capture cond"), "capture body")
               /\ pc' = "trace_register"
               /\ UNCHANGED <<modes, frames, result, error>>
    /\ UNCHANGED <<entry, argVars, carried_vals, shape_env, root, nodes, sess>>

\* the probe for the names, the assertion, and the two register_module calls
trace_register ==
    /\ pc = "trace_register"
    /\ LET i == NextFreeIndex(root, 0)
           cond_graph_name == CondName(i)
           body_graph_name == BodyName(i)
           taken == Cardinality({n \in {cond_graph_name, body_graph_name} : HasAttr(root, n)})
       IN IF HasAttr(root, body_graph_name)
          THEN Raise(ErrAssertBodyName) /\ UNCHANGED <<root, sess, hist>>
          ELSE /\ root' = register_module(
                              register_module(root, cond_graph_name, tr.cond_graph),
                              body_graph_name, tr.body_graph)
               /\ sess' = [sess EXCEPT
                             !.regs = Append(@, [cond |-> cond_graph_name,
                                                 body |-> body_graph_name]),
                             !.overwritten = @ + taken]
               /\ hist' = Step(hist, "register")
               /\ pc' = "trace_emit"
               /\ UNCHANGED <<modes, frames, result, error>>
    /\ UNCHANGED <<entry, argVars, carried_vals, shape_env, nodes, tr>>

\* args, proxy_args and the call_function node
trace_emit ==
    /\ pc = "trace_emit"
    /\ nodes' = Append(nodes, [op |-> "while_loop",
                               args |-> <<tr.cond_graph, tr.body_graph,
                                          carried_inputs, additional_inputs>>])
    /\ hist' = Step(hist, "emit")
    /\ pc' = "trace_reinvoke"
    /\ UNCHANGED <<entry, argVars, modes, frames, carried_vals, result, error,
                   shape_env, root, tr, sess>>

\* out = while_loop_op(cond_fn, body_fn, carried_inputs, additional_inputs)
trace_reinvoke ==
    /\ pc = "trace_reinvoke"
    /\ frames' = <<[pc |-> "trace_return", modes |-> modes]>> \o frames
    /\ modes' = Tail(modes)
    /\ hist' = Step(hist, "reinvoke")
    /\ pc' = "op_call"
    /\ UNCHANGED <<entry, argVars, carried_vals, result, error, traceVars>>

\* track_tensor_tree and return
trace_return ==
    /\ pc = "trace_return"
    /\ Return(result)
    /\ hist' = Step(hist, "track")
    /\ UNCHANGED <<entry, argVars, carried_vals, traceVars>>

(***************************************************************************)
(* The fake-tensor handler.                                                *)
(***************************************************************************)
\* body_fn(carried_inputs.., additional_inputs..) of the fake-tensor handler
FakeBodyOutput == BodyApply(body_fn, carried_inputs.items \o additional_inputs.items)

\* n calls of create_unbacked_symint by the operators body_fn calls
RECURSIVE AllocN(_, _)
AllocN(env, n) == IF n = 0 THEN env ELSE AllocN(create_unbacked_symint(env), n - 1)

\* with mode: with mode.shape_env.ignore_fresh_unbacked_symbols():
\*     body_output = body_fn(...)
while_loop_fake_tensor_mode_scope_open ==
    /\ pc = "while_loop_fake_tensor_mode"
    /\ IF ~IsCallable(body_fn)
       THEN Raise(ErrTypeNotCallable) /\ UNCHANGED <<shape_env, tr, hist>>
       ELSE LET inside == AllocN([shape_env EXCEPT !.ignore = TRUE], body_fn.allocs)
            IN /\ shape_env' = inside
               /\ tr' = [tr EXCEPT !.body_output = FakeBodyOutput,
                                   !.prev_ignore = shape_env.ignore,
                                   !.body_syms = Allocated(shape_env, inside)]
               /\ hist' = [Step(hist, "fake body") EXCEPT !.bodyEvals = @ + 1]
               /\ pc' = "fake_unspecialize"
               /\ UNCHANGED <<modes, frames, result, error>>
    /\ UNCHANGED <<entry, argVars, carried_vals, root, nodes, sess>>

while_loop_fake_tensor_mode ==
    /\ pc = "while_loop_fake_tensor_mode"
    /\ IF ~IsCallable(body_fn)
       THEN Raise(ErrTypeNotCallable) /\ UNCHANGED <<shape_env, tr, hist>>
       ELSE LET inside == AllocN([shape_env EXCEPT !.ignore = TRUE], body_fn.allocs)
            IN /\ shape_env' = [inside EXCEPT !.ignore = shape_env.ignore]
               /\ tr' = [tr EXCEPT !.body_output = FakeBodyOutput,
                                   !.prev_ignore = shape_env.ignore,
                                   !.body_syms = Allocated(shape_env, inside)]
               /\ hist' = [Step(hist, "fake body") EXCEPT !.bodyEvals = @ + 1]
               /\ pc' = "fake_unspecialize"
               /\ UNCHANGED <<modes, frames, result, error>>
    /\ UNCHANGED <<entry, argVars, carried_vals, root, nodes, sess>>

\* the elements a for loop over x visits
Iterable(x) == x.t \in {"tuple", "list"} \/ (IsTensor(x) /\ x.shape # <<>>)
Iterate(x) ==
    IF x.t \in {"tuple", "list"} THEN x.items
    ELSE [j \in 1..Head(x.shape) |-> [x EXCEPT !.shape = Tail(@)]]

\* the fake-tensor handler returns the result of the unspecializer
FakeReturn(u) ==
    /\ shape_env' = u.env
    /\ tr' = [tr EXCEPT !.fake_out = PyTuple(u.items), !.dbg = NoDbg,
                        !.fake_syms = @ \cup Allocated(shape_env, u.env)]
    /\ Return(PyTuple(u.items))

\* return unspecialize_ints_with_unbacked_symints(mode, body_output)
fake_unspecialize ==
    /\ pc = "fake_unspecialize"
    /\ IF ~Iterable(tr.body_output)
       THEN Raise(ErrNotIterable) /\ UNCHANGED <<shape_env, tr>>
       ELSE LET u == UnspecFrom(Iterate(tr.body_output), shape_env, FALSE, 1)
            IN IF u.brk # 0
               THEN /\ pc' = "breakpoint"
                    /\ shape_env' = u.env
                    /\ tr' = [tr EXCEPT !.dbg = [resume |-> "fake_unspecialize", items |-> u.items,
                                                 pos |-> u.brk, bind |-> FALSE],
                                        !.fake_syms = @ \cup Allocated(shape_env, u.env)]
                    /\ UNCHANGED <<modes, frames, result, error>>
               ELSE FakeReturn(u)
    /\ hist' = Step(hist, "fake unspecialize")
    /\ UNCHANGED <<entry, argVars, carried_vals, root, nodes, sess>>

\* the debugger entered by breakpoint() is told to continue: _unspecialize_int
\* returns and its caller goes on with the remaining elements
debugger_continue ==
    /\ pc = "breakpoint"
    /\ LET d == tr.dbg
           u == UnspecFrom(d.items, shape_env, d.bind, d.pos + 1)
       IN IF u.brk # 0
          THEN /\ shape_env' = u.env
               /\ tr' = [tr EXCEPT !.dbg = [d EXCEPT !.items = u.items, !.pos = u.brk]]
               /\ UNCHANGED <<pc, modes, frames, result, error>>
          ELSE IF d.resume = "while_loop_tracing"
          THEN /\ pc' = "trace_capture"
               /\ shape_env' = [u.env EXCEPT !.ignore = tr.prev_ignore]
               /\ tr' = [tr EXCEPT !.tracing_carry = PyTuple(u.items), !.dbg = NoDbg]
               /\ UNCHANGED <<modes, frames, result, error>>
          ELSE FakeReturn(u)
    /\ hist' = Step(hist, "continue")
    /\ UNCHANGED <<entry, argVars, carried_vals, root, nodes, sess>>

\* the same loop is traced once more into the same graph
next_call ==
    /\ pc \in {"done", "raised"}
    /\ sess.calls < MaxCalls
    /\ sess' = [sess EXCEPT !.calls = @ + 1]
    /\ pc' = "op_call"
    /\ modes' = sess.modes0
    /\ frames' = <<>>
    /\ result' = PyNone
    /\ error' = "none"
    /\ hist' = Hist0
    /\ tr' = Tr0
    /\ carried_vals' = PyNone
    /\ UNCHANGED <<entry, argVars, shape_env, root, nodes>>

FakeTensor == Tensor("float32", <<3, 4>>, 0)

TraceCarriedChoices ==
    {PyTuple(<<FakeTensor>>), PyTuple(<<PyInt(0), FakeTensor>>),
     PyTuple(<<PyInt(0), PyInt(1)>>), PyTuple(<<Tensor("int64", <<1>>, 0), PyBool(TRUE)>>),
     PyTuple(<<PyFloat(0), SymInt(0)>>)}

TraceBodyChoices(n) ==
    {[BodyFn(n, "inc", NoFault, "ok") EXCEPT !.sig = sg, !.allocs = k] :
        sg \in {"keep", "change"}, k \in 0..1}
    \cup {BodyFn(n, "inc", 0, bad) : bad \in {"list", "longer"}}

\* the children of the enclosing graph before the first call
RootChoices ==
    {<<>>,
     <<[name |-> BodyName(0), module |-> PyNone]>>,
     <<[name |-> CondName(0), module |-> PyNone]>>,
     <<[name |-> CondName(0), module |-> PyNone], [name |-> BodyName(0), module |-> PyNone]>>}

ShapeEnvChoices ==
    {[ShapeEnv(n) EXCEPT !.ignore = ig] : n \in {0, SymbolsBefore}, ig \in BOOLEAN}
    \cup {[ShapeEnv(SymbolsBefore) EXCEPT !.pending = {SymbolsBefore - 1}]}

InitTrace ==
    /\ entry = "while_loop_op"
    /\ carried_inputs \in TraceCarriedChoices
    /\ additional_inputs \in {PyTuple(<<>>), PyTuple(<<FakeTensor>>)}
    /\ cond_fn \in {CondFn(Arity(carried_inputs), thr, "tensor", NoFault, PyNone) : thr \in 0..1}
    /\ body_fn \in TraceBodyChoices(Arity(carried_inputs))
    /\ modes \in {<<"ProxyTorchDispatchMode", "FakeTensorMode">>,
                  <<"FakeTensorMode">>, <<"ProxyTorchDispatchMode">>}
    /\ frames = <<>>
    /\ pc = "op_call"
    /\ carried_vals = PyNone
    /\ result = PyNone
    /\ error = "none"
    /\ hist = Hist0
    /\ shape_env \in ShapeEnvChoices
    /\ root \in RootChoices
    /\ nodes = <<>>
    /\ tr = Tr0
    /\ sess = Session(root, modes)

NextTrace ==
    \/ WhileLoopOp__call__
    \/ while_loop_tracing
    \/ trace_capture
    \/ trace_register
    \/ trace_emit
    \/ trace_reinvoke
    \/ trace_return
    \/ while_loop_fake_tensor_mode
    \/ fake_unspecialize
    \/ debugger_continue
    \/ while_loop_dense
    \/ dense_cond
    \/ dense_body
    \/ next_call

SpecTrace == InitTrace /\ [][NextTrace]_vars

(***************************************************************************)
(* The reference semantics of the docstring of while_loop:                 *)
(*     val = carried_inputs                                                *)
(*     while cond_fn(val..): val = body_fn(val..)                          *)
(*     return val                                                          *)
(* with the additional inputs appended to every call.  The result is the   *)
(* final val, or a marker when the unrolling raises or does not end within *)
(* fuel iterations.                                                        *)
(***************************************************************************)
UnrollError == [t |-> "error"]
UnrollDiverges == [t |-> "diverges"]

RECURSIVE Unroll(_, _, _, _, _)
Unroll(cf, bf, val, add, fuel) ==
    IF ~IsCallable(cf) \/ ~IsTuple(val) THEN UnrollError
    ELSE LET p == Truthy(CondApply(cf, val.items \o add.items))
         IN CASE p = "raise" -> UnrollError
              [] p = "false" -> val
              [] OTHER ->
                   IF fuel = 0 THEN UnrollDiverges
                   ELSE IF ~IsCallable(bf) THEN UnrollError
                   ELSE Unroll(cf, bf, BodyApply(bf, val.items \o add.items), add, fuel - 1)

DenseRan == "while_loop_dense" \in Range(hist.dispatched)
Returned == pc \in {"done", "autograd_return"}

(***************************************************************************)
(* Claims.                                                                 *)
(***************************************************************************)

\* C1: whenever the dense executor returns, its result is the value of the
\* manual unrolling of the loop on the same arguments; it raises only when
\* cond_fn or body_fn breaks its contract and goes on only while the
\* unrolling goes on; and when cond_fn is false on the initial carried_inputs
\* the result is carried_inputs and body_fn was never evaluated.
DenseEqualsUnrolling ==
    /\ (pc = "dense_body" /\ hist.bodyEvals >= MaxIter) =>
          Unroll(cond_fn, body_fn, carried_inputs, additional_inputs, MaxIter) = UnrollDiverges
    /\ (DenseRan /\ Returned) =>
          result = Unroll(cond_fn, body_fn, carried_inputs, additional_inputs, MaxIter + 1)
    /\ (DenseRan /\ pc = "raised" /\ error # ErrAutograd) =>
          \/ hist.badCond \/ hist.badBody
          \/ ~IsCallable(cond_fn) \/ ~IsCallable(body_fn)
    /\ (DenseRan /\ Returned /\ IsCallable(cond_fn)
          /\ Truthy(CondApply(cond_fn, carried_inputs.items \o additional_inputs.items)) = "false") =>
          result = carried_inputs /\ hist.bodyEvals = 0

\* C1 witness: a dense call that returned after two or more iterations
DenseReturnedAfterIterations ==
    /\ DenseRan /\ pc = "done"
    /\ hist.bodyEvals >= 2
    /\ result # carried_inputs
    /\ additional_inputs.items # <<>>

\* the arguments break the contract of WhileLoopOp.__call__
BadCallArgs ==
    \/ ~IsTuple(carried_inputs)
    \/ ~IsTuple(additional_inputs)
    \/ \E j \in 1..Len(carried_inputs.items) :
          carried_inputs.items[j].t \notin {"tensor", "int", "float", "bool", "symint"}

\* C2: when carried_inputs or additional_inputs is no tuple, or a carried
\* element has a type that is not allowed, no handler is ever dispatched,
\* neither cond_fn nor body_fn is evaluated, and once the operator has been
\* invoked the call has raised an argument-contract error.
BadArgsRaiseBeforeDispatch ==
    BadCallArgs =>
        /\ hist.dispatched = <<>>
        /\ hist.condEvals = 0 /\ hist.bodyEvals = 0
        /\ pc \in {"while_loop", "op_call", "raised"}
        /\ pc = "raised" => error \in ArgContractErrors
        /\ (pc = "raised" /\ entry # "while_loop:eager") =>
              error \in {ErrCallCarriedTuple, ErrCallAdditionalTuple, ErrCallCarriedTypes}

\* C2 witness: the operator rejected a carried tuple with a string element
BadCarriedElementRejected ==
    /\ pc = "raised"
    /\ error = ErrCallCarriedTypes
    /\ IsTuple(carried_inputs)
    /\ \E j \in 1..Len(carried_inputs.items) : carried_inputs.items[j].t = "str"

\* C3: once cond_fn has returned a value that is no boolean scalar, the dense
\* executor has failed with the condition-type error and has not returned a
\* carried tuple.
InvalidCondNeverReturns ==
    hist.badCond => (pc = "raised" /\ error \in {ErrCondType, ErrBoolAmbiguous})

\* C4: once body_fn has returned a value that is no tuple of the arity of
\* carried_inputs, the call has failed at that evaluation (the last
\* evaluation logged is that of body_fn); and the carried tuple has the arity
\* of carried_inputs at every evaluation and at return.
BodyShapeErrorsAreFatal ==
    /\ hist.badBody =>
          /\ pc = "raised"
          /\ error \in {ErrBodyTuple, ErrBodyArity}
          /\ hist.log[Len(hist.log)][1] = "body"
    /\ \A j \in 1..Len(hist.log) :
          /\ IsTuple(hist.log[j][2])
          /\ Len(hist.log[j][2].items) = Len(carried_inputs.items)
    /\ (DenseRan /\ Returned) =>
          IsTuple(result) /\ Len(result.items) = Len(carried_inputs.items)

\* C4 witness: body_fn returned a tuple of the wrong arity in a later iteration
BodyArityErrorInLaterIteration ==
    /\ pc = "raised"
    /\ error = ErrBodyArity
    /\ hist.bodyEvals >= 2

\* C5: a cond_fn or body_fn that is not callable is rejected before the
\* operator is dispatched to a handler, on every entry path.
NonCallableRejectedBeforeDispatch ==
    (~IsCallable(cond_fn) \/ ~IsCallable(body_fn)) => hist.dispatched = <<>>

\* C10: the handler of the Autograd key does not raise the
\* autograd-not-implemented error in the forward call; the error is raised
\* exactly when a gradient is requested through the output of a call that
\* the handler served.
AutogradErrorIsDeferred ==
    /\ error = ErrAutograd =>
          hist.gradRequested /\ "autograd_not_implemented" \in Range(hist.dispatched)
    /\ (hist.gradRequested /\ "autograd_not_implemented" \in Range(hist.dispatched)) =>
          pc = "raised" /\ error = ErrAutograd
    /\ (pc = "done" /\ "autograd_not_implemented" \in Range(hist.dispatched)) =>
          hist.errGradFn /\ error = "none"

\* C10 witness: a gradient requested through the output of a forward call
\* that returned under the Autograd key
GradientRequestedAfterForward ==
    /\ hist.gradRequested
    /\ error = ErrAutograd
    /\ hist.dispatched = <<"autograd_not_implemented", "while_loop_dense">>
    /\ hist.bodyEvals >= 1

FuncActed == hist.dispatched # <<>> /\ pc # "while_loop_func"
CondClean == ~cond_fn.mutates /\ ~cond_fn.aliases

\* C6: in the functionalization handler, with a cond_fn that neither mutates
\* nor aliases, a body_fn for which the mutation check reports a mutation
\* (aliasing or not) is rejected with the body_fn mutation error, and
\* while_loop_op is not invoked again.
BodyMutationRejected ==
    (FuncActed /\ CondClean /\ body_fn.mutates) =>
        /\ pc = "raised"
        /\ error = ErrBodyMutation
        /\ hist.calls = 1

\* C6 witness: a body_fn that mutates and aliases was rejected
MutatingAliasingBodyRejected ==
    /\ FuncActed /\ CondClean
    /\ body_fn.mutates /\ body_fn.aliases
    /\ error = ErrBodyMutation
    /\ Len(carried_inputs.items) = 2

\* C7: in the functionalization handler, with a cond_fn that neither mutates
\* nor aliases, a body_fn that aliases an input and does not mutate is
\* rejected with the body_fn aliasing error, and while_loop_op is not invoked
\* again.
BodyAliasRejected ==
    (FuncActed /\ CondClean /\ body_fn.aliases /\ ~body_fn.mutates) =>
        /\ pc = "raised"
        /\ error = ErrBodyAlias
        /\ hist.calls = 1

\* C7 witness: a body_fn that only aliases was rejected
AliasingBodyRejected ==
    /\ FuncActed /\ CondClean
    /\ body_fn.aliases /\ ~body_fn.mutates
    /\ error = ErrBodyAlias
    /\ hist.checks = FuncCheckOrder

\* C8: starting from a graph with no while_loop children, the k-th tracing
\* (k = 0, 1, 2, ..) registers exactly while_loop_cond_graph_k and
\* while_loop_body_graph_k: the names never collide, no registration replaces
\* a child registered earlier, and the name assertion never fails.
FreshNamesPerTracing ==
    sess.root0 = <<>> =>
        /\ \A k \in 1..Len(sess.regs) :
              /\ sess.regs[k] = [cond |-> CondName(k - 1), body |-> BodyName(k - 1)]
              /\ root[2 * k - 1].name = CondName(k - 1)
              /\ root[2 * k].name = BodyName(k - 1)
        /\ Len(root) = 2 * Len(sess.regs)
        /\ \A a, b \in 1..Len(root) : a # b => root[a].name # root[b].name
        /\ sess.overwritten = 0
        /\ error # ErrAssertBodyName
        /\ Len(nodes) <= Len(sess.regs)

\* C8 witness: the same loop traced three times into an empty graph
ThreeTracingsRegistered ==
    /\ sess.root0 = <<>>
    /\ Len(sess.regs) >= 3
    /\ Len(nodes) = 3
    /\ pc = "done"

Sig(x) == IF IsTensor(x) THEN <<"tensor", x.dtype, x.shape>> ELSE <<x.t>>

\* body_fn, on the inputs of the call, returns a tuple of the arity of
\* carried_inputs whose tensors have the signature of the carried tensors
BodyPreservesSignature ==
    /\ IsCallable(body_fn)
    /\ LET out == BodyApply(body_fn, carried_inputs.items \o additional_inputs.items)
       IN /\ IsTuple(out)
          /\ Len(out.items) = Len(carried_inputs.items)
          /\ \A j \in 1..Len(out.items) :
                IsTensor(carried_inputs.items[j]) => Sig(out.items[j]) = Sig(carried_inputs.items[j])

\* C9: for a body_fn that preserves the signature, the fake-tensor handler
\* returns a tuple of the arity of carried_inputs whose tensor elements have
\* the shape and dtype of the carried tensors, after one evaluation of
\* body_fn and none of cond_fn, whatever the number of dense iterations.
FakeKeepsSignature ==
    (tr.fake_out # PyNone /\ BodyPreservesSignature) =>
        /\ IsTuple(tr.fake_out)
        /\ Len(tr.fake_out.items) = Len(carried_inputs.items)
        /\ \A j \in 1..Len(carried_inputs.items) :
              IsTensor(carried_inputs.items[j]) =>
                  Sig(tr.fake_out.items[j]) = Sig(carried_inputs.items[j])
        /\ hist.bodyEvals = 1
        /\ hist.condEvals = 0

\* C9 witness: the handler returned for a loop with an integer and a tensor
\* carry that the dense executor would iterate
FakeReturnedForIteratingLoop ==
    /\ tr.fake_out # PyNone
    /\ BodyPreservesSignature
    /\ carried_inputs.items[1].t = "int"
    /\ Len(carried_inputs.items) = 2 /\ IsTensor(carried_inputs.items[2])
    /\ Truthy(CondApply(cond_fn, carried_inputs.items \o additional_inputs.items)) = "true"
    /\ additional_inputs.items # <<>>

\* the smallest suffix, from i on, for which both names are free in r
RECURSIVE SmallestBothFree(_, _)
SmallestBothFree(r, i) ==
    IF ~HasAttr(r, CondName(i)) /\ ~HasAttr(r, BodyName(i)) THEN i
    ELSE SmallestBothFree(r, i + 1)

\* C11: whatever children the enclosing graph has, the name assertion of the
\* tracing handler never fails, no registration replaces a child, and right
\* after the registration the two last children of the graph are the captured
\* subgraphs under the smallest suffix for which both names were free.
ProbeFindsBothNamesFree ==
    /\ error # ErrAssertBodyName
    /\ sess.overwritten = 0
    /\ pc = "trace_emit" =>
          /\ Len(root) >= 2
          /\ LET before == SubSeq(root, 1, Len(root) - 2)
                 i == SmallestBothFree(before, 0)
             IN root = before \o <<[name |-> CondName(i), module |-> tr.cond_graph],
                                   [name |-> BodyName(i), module |-> tr.body_graph]>>

\* out is inp with every plain integer replaced by a symbolic integer, the
\* symbols distinct from one another, and every other element (tensor, float,
\* boolean, symbolic integer) unchanged at its position
OnlyPlainIntsReplaced(inp, out) ==
    /\ Len(out) = Len(inp)
    /\ \A j \in 1..Len(inp) :
          IF inp[j].t = "int"
          THEN /\ out[j].t = "symint"
               /\ out[j].id < shape_env.next
               /\ \A k \in 1..Len(inp) : (k # j /\ out[k].t = "symint") => out[k].id # out[j].id
          ELSE out[j] = inp[j]

\* C12: the tuple unspecialize_ints_with_unbacked_symints returns, to the
\* tracing handler for carried_inputs and to the fake-tensor handler for the
\* output of body_fn, has the length and order of its input, a new distinct
\* symbol in the place of every plain integer, and every tensor, float,
\* boolean and symbolic integer unchanged.
UnspecializeReplacesOnlyPlainInts ==
    /\ tr.tracing_carry # PyNone =>
          OnlyPlainIntsReplaced(carried_inputs.items, tr.tracing_carry.items)
    /\ tr.fake_out # PyNone =>
          OnlyPlainIntsReplaced(Iterate(tr.body_output), tr.fake_out.items)

\* every tensor of the tuple x is (b = TRUE) or is not (b = FALSE) in its
\* functional wrapper
AllWrapped(x, b) ==
    IsTuple(x) /\ \A j \in 1..Len(x.items) : IsTensor(x.items[j]) => x.items[j].fw = b

\* C13: the functionalization handler runs the checks cond_fn-mutation,
\* cond_fn-aliasing, body_fn-mutation, body_fn-aliasing in this order and
\* stops at the first that fires: the error names that function and that
\* kind, no later check has run and while_loop_op is not invoked again.  When
\* none fires all four have run and while_loop_op is invoked once more, with
\* the functionalized cond_fn and body_fn and the unwrapped carried and
\* additional inputs, and the result returned is re-wrapped.
FuncChecksInFixedOrder ==
    FuncActed =>
        LET cm == <<"cond_fn", "mutation">>
            ca == <<"cond_fn", "alias">>
            bm == <<"body_fn", "mutation">>
            ba == <<"body_fn", "alias">>
            rejected(e, ran) ==
                pc = "raised" /\ error = e /\ hist.checks = ran /\ hist.calls = 1
        IN CASE cond_fn.mutates -> rejected(ErrCondMutation, <<cm>>)
             [] ~cond_fn.mutates /\ cond_fn.aliases -> rejected(ErrCondAlias, <<cm, ca>>)
             [] CondClean /\ body_fn.mutates -> rejected(ErrBodyMutation, <<cm, ca, bm>>)
             [] CondClean /\ ~body_fn.mutates /\ body_fn.aliases ->
                    rejected(ErrBodyAlias, <<cm, ca, bm, ba>>)
             [] OTHER ->
                    /\ hist.checks = <<cm, ca, bm, ba>>
                    /\ error = "none"
                    /\ cond_fn.functional /\ body_fn.functional
                    /\ AllWrapped(carried_inputs, FALSE)
                    /\ AllWrapped(additional_inputs, FALSE)
                    /\ hist.calls = IF pc = "op_call" THEN 1 ELSE 2
                    /\ hist.dispatched \in {<<"while_loop_func">>,
                                            <<"while_loop_func", "while_loop_dense">>}
                    /\ carried_vals # PyNone => AllWrapped(carried_vals, FALSE)
                    /\ pc = "func_return" => AllWrapped(result, FALSE)
                    /\ pc = "done" => AllWrapped(result, TRUE)

\* C13 witness: all four checks passed and the handler returned the
\* re-wrapped result of a nested call that iterated
FuncReturnedWrappedResult ==
    /\ FuncActed /\ pc = "done"
    /\ hist.checks = FuncCheckOrder
    /\ hist.calls = 2
    /\ hist.bodyEvals >= 2
    /\ \E j \in 1..Len(result.items) : IsTensor(result.items[j]) /\ result.items[j].fw
    /\ additional_inputs.items # <<>>

\* C14: the evaluations of the dense executor alternate cond_fn, body_fn,
\* cond_fn, .., each body_fn evaluation on the carried tuple of the cond_fn
\* evaluation before it; a call that returned after n evaluations of body_fn
\* made n + 1 of cond_fn, all true but the last; the docstring example
\* (iter.sum() < 10, iter + 1, from 0) returns after exactly 10 iterations
\* with the counter at 10; and with a condition that never turns false the
\* call does not return.
DenseAlternatesCondBody ==
    LET log == hist.log
        n == Len(log)
        args0 == carried_inputs.items \o additional_inputs.items
    IN /\ \A j \in 1..n :
             /\ log[j][1] = (IF j % 2 = 1 THEN "cond" ELSE "body")
             /\ j % 2 = 0 => log[j][2] = log[j - 1][2]
             /\ (j < n /\ j % 2 = 1) => Truthy(CondApply(cond_fn, log[j][3])) = "true"
       /\ hist.condEvals = (n + 1) \div 2
       /\ hist.bodyEvals = n \div 2
       /\ pc = "done" =>
             /\ hist.condEvals = hist.bodyEvals + 1
             /\ Truthy(CondApply(cond_fn, log[n][3])) = "false"
             /\ result = log[n][2]
       /\ (pc = "done" /\ cond_fn.thr = DocExampleLimit /\ body_fn.kind = "inc"
             /\ Num(carried_inputs.items[1]) = 0 /\ additional_inputs.items = <<>>) =>
             /\ hist.bodyEvals = 10
             /\ Num(result.items[1]) = 10
             /\ \A j \in 2..Len(result.items) : result.items[j].v = 10
       /\ (body_fn.kind = "stay" /\ Truthy(CondApply(cond_fn, args0)) = "true") =>
             pc # "done" /\ result = PyNone

\* C14 witness: the docstring example returned
DocExampleReturned ==
    /\ pc = "done"
    /\ cond_fn.thr = DocExampleLimit /\ body_fn.kind = "inc"
    /\ carried_inputs = PyTuple(<<Tensor("float32", <<1>>, 0), XTensor>>)
    /\ additional_inputs.items = <<>>
    /\ hist.bodyEvals = 10
    /\ result.items[1] = Tensor("float32", <<1>>, 10)

\* C15: every evaluation of cond_fn and of body_fn by the dense executor
\* receives the current carried values followed by the additional inputs of
\* the call, the same ones in the same order at every evaluation, and the
\* tuple the executor returns has exactly the length of carried_inputs.
AdditionalInputsAreFrame ==
    /\ \A j \in 1..Len(hist.log) :
          LET vals == hist.log[j][2]
              args == hist.log[j][3]
              k == Len(carried_inputs.items)
          IN /\ Len(vals.items) = k
             /\ Len(args) = k + Len(additional_inputs.items)
             /\ SubSeq(args, 1, k) = vals.items
             /\ SubSeq(args, k + 1, Len(args)) = additional_inputs.items
    /\ (DenseRan /\ Returned) =>
          /\ IsTuple(result)
          /\ Len(result.items) = Len(carried_inputs.items)
          /\ result = IF hist.bodyEvals = 0 THEN carried_inputs
                      ELSE BodyApply(body_fn, hist.log[Len(hist.log) - 1][3])

\* C15 witness: a call with an additional input returned after two or more
\* iterations over a carried pair
ReturnedWithAdditionalInput ==
    /\ DenseRan /\ pc = "done"
    /\ additional_inputs.items = <<PyInt(1)>>
    /\ Len(carried_inputs.items) = 2
    /\ hist.bodyEvals >= 2

\* the steps of the tracing handler, of the ones the claim orders, in the
\* order they were taken
RECURSIVE OrderedSteps(_)
OrderedSteps(st) ==
    IF st = <<>> THEN <<>>
    ELSE IF Head(st) \in {"capture cond", "capture body", "register", "emit", "reinvoke"}
    THEN <<Head(st)>> \o OrderedSteps(Tail(st))
    ELSE OrderedSteps(Tail(st))

TracingOrder == <<"capture cond", "capture body", "register", "emit", "reinvoke">>

TracingDispatched == hist.dispatched # <<>> /\ hist.dispatched[1] = "while_loop_tracing"

\* C16: the steps of an invocation of the tracing handler are taken in the
\* order capture cond, capture body, register, emit, re-invoke; an invocation
\* that is over has emitted exactly one node and registered exactly two
\* subgraphs; the node holds the two captured subgraphs (captured on the
\* unspecialized carry), the carried inputs of the call with their concrete
\* integers, and the additional inputs; and the nested call is made on the
\* cond_fn, body_fn and carried inputs of the call.
TracingEmitsOneNodeInOrder ==
    TracingDispatched =>
        LET done == OrderedSteps(hist.steps)
            k == sess.calls
        IN /\ Len(done) <= Len(TracingOrder)
           /\ done = SubSeq(TracingOrder, 1, Len(done))
           /\ pc \in {"done", "raised"} =>
                 /\ done = TracingOrder
                 /\ Len(nodes) = k
                 /\ Len(sess.regs) = k
                 /\ Len(root) = Len(sess.root0) + 2 * k
           /\ "emit" \in Range(hist.steps) =>
                 /\ Len(nodes) = k
                 /\ nodes[k].args = <<tr.cond_graph, tr.body_graph,
                                      carried_inputs, additional_inputs>>
                 /\ tr.cond_graph = Graph(cond_fn, tr.tracing_carry.items \o additional_inputs.items)
                 /\ tr.body_graph = Graph(body_fn, tr.tracing_carry.items \o additional_inputs.items)
                 /\ root[Len(root) - 1].module = tr.cond_graph
                 /\ root[Len(root)].module = tr.body_graph
           /\ tr.body_output # PyNone =>
                 tr.body_output = BodyApply(body_fn, carried_inputs.items \o additional_inputs.items)

\* the symbolic integers among the elements of the tuple x
SymbolsOf(x) == {x.items[j].id : j \in {i \in 1..Len(x.items) : x.items[i].t = "symint"}}

\* C17: when the tracing handler leaves the ignore_fresh_unbacked_symbols
\* scope in which it unspecialized the carried inputs, the pending fresh
\* symbols of the shape environment are exactly those pending before the
\* step, however many integers are carried: none of the symbols of the probe
\* is pending; and the ignore flag has the value it had before the scope.
TracingProbeSymbolsIgnored ==
    (TracingDispatched /\ pc = "trace_capture") =>
        /\ shape_env.pending = tr.prev_pending
        /\ shape_env.ignore = tr.prev_ignore
        /\ SymbolsOf(tr.tracing_carry) \cap shape_env.pending = {}
        /\ \A j \in 1..Len(carried_inputs.items) :
              carried_inputs.items[j].t = "int" => tr.tracing_carry.items[j].t = "symint"

\* C17 witness: two integer carries were unspecialized in an environment
\* that had a pending symbol and the flag clear
TwoIntCarriesProbed ==
    /\ TracingDispatched /\ pc = "trace_capture"
    /\ carried_inputs = PyTuple(<<PyInt(0), PyInt(1)>>)
    /\ Cardinality(SymbolsOf(tr.tracing_carry)) = 2
    /\ tr.prev_pending # {}
    /\ ~tr.prev_ignore
    /\ "FakeTensorMode" \in Range(modes)

\* what the fake-tensor handler returned, apart from the pending state of
\* the replacement symbols: no concrete integer is left, every integer of the
\* output of body_fn is replaced by a symbol allocated after the scope around
\* the evaluation of body_fn was left, no binding is recorded for these
\* symbols, and no symbol allocated during the evaluation is pending
FakeOutputUnspecialized ==
    LET out == Iterate(tr.body_output)
    IN /\ Len(tr.fake_out.items) = Len(out)
       /\ \A j \in 1..Len(out) :
             /\ tr.fake_out.items[j].t # "int"
             /\ out[j].t = "int" =>
                   tr.fake_out.items[j].t = "symint" /\ tr.fake_out.items[j].id \in tr.fake_syms
       /\ tr.fake_syms \cap shape_env.bound = {}
       /\ tr.body_syms \cap shape_env.pending = {}
       /\ \A a \in tr.body_syms, b \in tr.fake_syms : a < b

\* C18: the tuple the fake-tensor handler returns holds no concrete integer:
\* every integer of the single output of body_fn is replaced, with no
\* binding, by a symbol allocated after the scope around the evaluation of
\* body_fn was left, and these symbols are pending (not ignored), while every
\* symbol allocated during the evaluation is ignored.
FakeReplacementsArePending ==
    tr.fake_out # PyNone =>
        /\ FakeOutputUnspecialized
        /\ tr.fake_syms \subseteq shape_env.pending

\* C18, amended: as above, except that the replacement symbols are pending
\* when the handler was entered with the ignore flag clear, and are ignored
\* like the symbols of the evaluation when it was entered inside an enclosing
\* ignore_fresh_unbacked_symbols scope, whose flag the handler restores.
FakeReplacementsFollowOuterScope ==
    tr.fake_out # PyNone =>
        /\ FakeOutputUnspecialized
        /\ shape_env.ignore = tr.prev_ignore
        /\ ~tr.prev_ignore => tr.fake_syms \subseteq shape_env.pending
        /\ tr.prev_ignore => tr.fake_syms \cap shape_env.pending = {}

\* C18 witness: the handler, entered with the flag clear, replaced an integer
\* of the output of a body_fn that allocated a symbol of its own
FakeReplacedIntAfterBodySymbol ==
    /\ tr.fake_out # PyNone
    /\ ~tr.prev_ignore
    /\ tr.body_syms # {}
    /\ tr.fake_syms # {}
    /\ \E j \in 1..Len(tr.fake_out.items) :
          Iterate(tr.body_output)[j].t = "int" /\ tr.fake_out.items[j].t = "symint"

\* C19: _unspecialize_int never stops in a debugger, whatever the index of
\* the symbol it allocates: a call of the unspecializer always runs on to
\* return the symbol.
UnspecializeIntNeverHalts ==
    pc # "breakpoint"

====
